---- MODULE Spec2Model ----
(***************************************************************************)
(* AppBlocker.py: the launch-event handler AppLaunch.appLaunched_ and the  *)
(* collaborators it calls (preferences read, re.match, scutil query,       *)
(* os.kill, alert, shutil.rmtree).                                         *)
(*                                                                         *)
(* Strings that the code inspects are sequences of one-character tokens:   *)
(* a bundle identifier is a sequence over IdChars, a regular expression a  *)
(* sequence over IdChars and the metacharacters ".", "(", ")" and "|".     *)
(* A Python dict is a record; a missing key is a missing field.            *)
(* An optional value (None / unbound local) is a sequence of length 0 or 1.*)
(***************************************************************************)
EXTENDS Integers, Sequences, FiniteSets, TLC

\* ---------------------------------------------------------------- bounds
MaxPolicyLen == 2
MaxPid == 2
MinOsMinor == 9
MaxOsMinor == 12

\* ------------------------------------------------------- input fixtures
IdChars == {"a", "b"}

\* bundle identifiers of launched applications
BundleIds == {<<"a">>, <<"a", "b">>, <<"b">>}

Pids == 1..MaxPid

\* userInfo dictionaries of the launch notifications
AppNameOf(b) == IF b = <<"a">> THEN "A" ELSE IF b = <<"a", "b">> THEN "AB" ELSE "B"

AppPathOf(b) == IF b = <<"a">> THEN "/Applications/A.app"
                ELSE IF b = <<"a", "b">> THEN "/Applications/AB.app"
                ELSE "/Applications/B.app"

LaunchEvents ==
    { [NSApplicationBundleIdentifier |-> b,
       NSApplicationName |-> AppNameOf(b),
       NSApplicationPath |-> AppPathOf(b),
       NSApplicationProcessIdentifier |-> p] : b \in BundleIds, p \in Pids }

\* "Application" values an administrator may configure: two literals, one
\* regular expression and one string that is not a regular expression
LiteralPatterns == {<<"a">>, <<"a", "b">>}
RegexPatterns == {<<"a", ".">>}
InvalidPatterns == {<<"(">>}
Patterns == LiteralPatterns \cup RegexPatterns \cup InvalidPatterns

\* AlertTitle format strings: tokens, "{...}" tokens are replacement fields
GoodTitle == <<"{appname}", "blocked">>
BadTitle == <<"{name}", "blocked">>
ReplacementFields == {"{appname}", "{name}"}

\* the (AlertUser, AlertTitle, DeleteApp) combinations of the fixtures
Profiles ==
    { [AlertUser |-> FALSE, AlertTitle |-> GoodTitle, DeleteApp |-> FALSE],
      [AlertUser |-> FALSE, AlertTitle |-> GoodTitle, DeleteApp |-> TRUE],
      [AlertUser |-> TRUE, AlertTitle |-> GoodTitle, DeleteApp |-> FALSE],
      [AlertUser |-> TRUE, AlertTitle |-> GoodTitle, DeleteApp |-> TRUE],
      [AlertUser |-> TRUE, AlertTitle |-> BadTitle, DeleteApp |-> TRUE] }

\* well-formed entries of the BlockedApps array
WellFormedEntries ==
    { [Application |-> a, AlertUser |-> f.AlertUser, AlertTitle |-> f.AlertTitle,
       AlertMessage |-> "Not allowed", DeleteApp |-> f.DeleteApp] :
         a \in LiteralPatterns \cup RegexPatterns, f \in Profiles }

\* an entry whose pattern does not compile
InvalidEntries ==
    { [Application |-> a, AlertUser |-> FALSE, AlertTitle |-> GoodTitle,
       AlertMessage |-> "Not allowed", DeleteApp |-> FALSE] : a \in InvalidPatterns }

\* an entry without its "Application" key
MalformedEntries ==
    { [AlertUser |-> TRUE, AlertTitle |-> GoodTitle,
       AlertMessage |-> "Not allowed", DeleteApp |-> TRUE] }

Entries == WellFormedEntries \cup InvalidEntries \cup MalformedEntries

EntryLists == UNION { [1..n -> Entries] : n \in 0..MaxPolicyLen }

\* what CFPreferencesCopyAppValue("BlockedApps", domain) can return:
\* << >> is None (key not set), <<l>> is the array l
PolicyValues == {<< >>} \cup { <<l>> : l \in EntryLists }

\* ------------------------------------------------------------- re.match
Min(S) == CHOOSE m \in S : \A n \in S : m <= n

\* nesting depth of the parentheses after the first n tokens of r
RECURSIVE Depth(_, _)
Depth(r, n) ==
    IF n = 0 THEN 0
    ELSE Depth(r, n - 1) + (IF r[n] = "(" THEN 1 ELSE IF r[n] = ")" THEN -1 ELSE 0)

\* re.compile succeeds: parentheses are balanced (else re.error)
ReCompiles(r) ==
    /\ \A n \in 0..Len(r) : Depth(r, n) >= 0
    /\ Depth(r, Len(r)) = 0

\* positions of the "|" that are outside every group
TopBars(r) == { i \in 1..Len(r) : r[i] = "|" /\ Depth(r, i - 1) = 0 }

\* the ")" closing the group opened by r[1] = "("
GroupEnd(r) == Min({ i \in 2..Len(r) : Depth(r, i) = 0 })

\* Ends(r, s, S): the numbers of characters of s consumed after matching r
\* from one of the positions in S (backtracking search of the re module)
RECURSIVE Ends(_, _, _)
Ends(r, s, S) ==
    IF TopBars(r) # {}
    THEN LET k == Min(TopBars(r))
         IN  Ends(SubSeq(r, 1, k - 1), s, S) \cup Ends(SubSeq(r, k + 1, Len(r)), s, S)
    ELSE IF r = << >> THEN S
    ELSE IF r[1] = "("
    THEN LET m == GroupEnd(r)
         IN  Ends(SubSeq(r, m + 1, Len(r)), s, Ends(SubSeq(r, 2, m - 1), s, S))
    ELSE IF r[1] = "."
    THEN Ends(Tail(r), s, { p + 1 : p \in { q \in S : q < Len(s) } })
    ELSE Ends(Tail(r), s, { p + 1 : p \in { q \in S : q < Len(s) /\ s[q + 1] = r[1] } })

\* re.match(r, s) returns a match object: r matches at the start of s
ReMatch(r, s) == Ends(r, s, {0}) # {}

\* ")|(".join(strings)
RECURSIVE Join(_)
Join(strings) ==
    IF Len(strings) = 0 THEN << >>
    ELSE IF Len(strings) = 1 THEN strings[1]
    ELSE strings[1] \o <<")", "|", "(">> \o Join(Tail(strings))

\* blocked_bundle_identifiers_combined
Combined(blocked_bundle_identifiers) ==
    <<"(">> \o Join(blocked_bundle_identifiers) \o <<")">>

\* ------------------------------------------------- appLaunched_, pure part
\* the list comprehension raises KeyError on an entry without "Application"
HasApplication(blocked_apps) ==
    \A i \in 1..Len(blocked_apps) : "Application" \in DOMAIN blocked_apps[i]

BlockedBundleIdentifiers(blocked_apps) ==
    [i \in 1..Len(blocked_apps) |-> blocked_apps[i].Application]

\* variant: the loop stops at the first entry that is equal (first-match-wins)
ScanBlockedAppsFirstEqual(blocked_apps, bundle_identifier, n) ==
    LET equal == { i \in 1..n : blocked_apps[i].Application = bundle_identifier }
    IN  IF equal = {} THEN << >> ELSE <<blocked_apps[Min(equal)]>>

\* the for loop over blocked_apps: blocked_app after the first n entries;
\* << >> while the local is still unbound
RECURSIVE ScanBlockedApps(_, _, _)
ScanBlockedApps(blocked_apps, bundle_identifier, n) ==
    IF n = 0 THEN << >>
    ELSE IF blocked_apps[n].Application = bundle_identifier
         THEN <<blocked_apps[n]>>
         ELSE ScanBlockedApps(blocked_apps, bundle_identifier, n - 1)

\* variant: the entry is taken by position instead of by identifier
ResolveBlockedAppHead(blocked_apps, bundle_identifier) ==
    IF Len(blocked_apps) = 0 THEN << >> ELSE <<blocked_apps[1]>>

\* lines 225-227
ResolveBlockedApp(blocked_apps, bundle_identifier) ==
    ScanBlockedApps(blocked_apps, bundle_identifier, Len(blocked_apps))

\* str.format(appname=app_name): KeyError on any other replacement field
FormatRaises(title) ==
    \E i \in 1..Len(title) : title[i] \in ReplacementFields /\ title[i] # "{appname}"

Format(title, app_name) ==
    [i \in 1..Len(title) |-> IF title[i] = "{appname}" THEN app_name ELSE title[i]]

\* ------------------------------------------------------------------ state
VARIABLES
    policy,         \* the stored BlockedApps preference: << >> (None) or <<array>>
    pc,             \* position of the run loop / of the handler
    notification,   \* << >> or <<userInfo of the event being handled>>
    blocked_apps,   \* the handler's local: << >> while unbound, else <<array>>
    blocked_app,    \* the handler's local: << >> while unbound, else <<entry>>
    console_user,   \* the handler's local: << >> while unbound, else <<stdout>>
    trace,          \* names of the external calls made for this event, in order
    kills,          \* os.kill(pid, SIGKILL) calls of this event, with outcome
    alerts,         \* arguments of the alert() calls that reached displayAlert
    deletes,        \* paths passed to shutil.rmtree for this event, with outcome
    error,          \* "" or the exception that left the handler
    prev            \* << >> or <<identifier and match result of the previous event>>

vars == <<policy, pc, notification, blocked_apps, blocked_app, console_user,
          trace, kills, alerts, deletes, error, prev>>

locals == <<notification, blocked_apps, blocked_app, console_user>>
calls == <<trace, kills, alerts, deletes>>

\* state of the host and of the one-shot process started with
\* --action install / uninstall (main, lines 326-423)
VARIABLES
    binary,            \* script_location: << >> (no file) or <<version it reports>>
    descriptor,        \* launch_daemon_location: << >> (no file) or <<plist>>
    loaded,            \* launchd has the unit loaded
    enabled,           \* launchd has the unit enabled
    os_minor_version,  \* as computed at line 357
    action,            \* "" or the --action of the running one-shot process
    step,              \* the position of that process
    ops,               \* its file operations and launchctl verbs, in order
    failure,           \* "" or the exception that ended it
    before,            \* << >> or <<the files and the unit as this run found them>>
    faulted,           \* a file operation or a launchctl verb of this run failed
    last_run           \* << >> or <<action, ops and failure of the run before>>

host == <<binary, descriptor, loaded, enabled, os_minor_version>>
run == <<action, step, ops, failure, before, faulted, last_run>>
lvars == <<host, run>>
allvars == <<vars, lvars>>

\* __version__ (line 37) and the version of an earlier release
CurrentVersion == "1.2.0"
OlderVersion == "1.1.0"

\* launch_daemon_plist (lines 120-132) for the domain given with --domain
LaunchDaemonPlist ==
    [Label |-> "domain",
     ProgramArguments |-> <<"python3", "/usr/local/bin/AppBlocker",
                            "--action", "run", "--domain", "domain">>,
     KeepAlive |-> TRUE,
     RunAtLoad |-> TRUE]

\* no one-shot process is running
NoRun ==
    /\ action = ""
    /\ step = "none"
    /\ ops = << >>
    /\ failure = ""
    /\ before = << >>
    /\ faulted = FALSE
    /\ last_run = << >>

\* the daemon has just been started in run mode (lines 425-435)
DaemonInit ==
    /\ policy = << >>
    /\ pc = "idle"
    /\ notification = << >>
    /\ blocked_apps = << >>
    /\ blocked_app = << >>
    /\ console_user = << >>
    /\ trace = << >>
    /\ kills = << >>
    /\ alerts = << >>
    /\ deletes = << >>
    /\ error = ""
    /\ prev = << >>

Init ==
    /\ DaemonInit
    /\ binary = <<CurrentVersion>>
    /\ descriptor = <<LaunchDaemonPlist>>
    /\ loaded = TRUE
    /\ enabled = TRUE
    /\ os_minor_version = MaxOsMinor
    /\ NoRun

\* ------------------------------------------- the administrator's profile
\* The handler reads the preference once, as its first statement, so an edit
\* made while an event is being handled is an edit made just after it.
AdminAddEntry(e) ==
    /\ pc = "idle"
    /\ IF policy = << >>
       THEN policy' = << <<e>> >>
       ELSE /\ Len(policy[1]) < MaxPolicyLen
            /\ policy' = << Append(policy[1], e) >>
    /\ UNCHANGED <<pc, locals, calls, error, prev, lvars>>

AdminRemoveEntry(i) ==
    /\ pc = "idle"
    /\ policy # << >>
    /\ i \in 1..Len(policy[1])
    /\ policy' = << SubSeq(policy[1], 1, i - 1) \o SubSeq(policy[1], i + 1, Len(policy[1])) >>
    /\ UNCHANGED <<pc, locals, calls, error, prev, lvars>>

AdminUnsetPolicy ==
    /\ pc = "idle"
    /\ policy # << >>
    /\ policy' = << >>
    /\ UNCHANGED <<pc, locals, calls, error, prev, lvars>>

\* ---------------------------------------------------------- control flow
\* the handler ends: by return (exception = "") or by an uncaught exception
Leave(exception) ==
    /\ pc' = IF exception = "" THEN "returned" ELSE "raised"
    /\ error' = exception

\* `if blocked_app["DeleteApp"]:` (line 268)
DeleteBranch(app) == IF app[1].DeleteApp THEN "delete" ELSE "return"

\* `if blocked_app["AlertUser"]:` (line 246), reached after os.kill returned
AlertBranch(app) ==
    IF app = << >> THEN "UnboundLocalError"
    ELSE IF app[1].AlertUser THEN "alert"
    ELSE DeleteBranch(app)

\* variant: the delete block is placed ahead of the kill
AfterLoggingDeleteFirst == "delete"

\* the statement that follows the logging of the console user (lines 236-243)
AfterLogging == "kill"

\* variant: rmtree is called without the try statement
AfterRmtreeUncaught(outcome) == IF outcome = "OSError" THEN "OSError" ELSE ""

\* `except OSError` (lines 271-272): the exception that leaves the try
\* statement around shutil.rmtree
AfterRmtree(outcome) == ""

\* go to the statement named by a branch
Goto(target) ==
    IF target = "return" THEN Leave("")
    ELSE IF target = "UnboundLocalError" THEN Leave("UnboundLocalError")
    ELSE pc' = target /\ error' = ""

\* variant: the preference is read once, when the daemon starts, and kept
ReadBlockedAppsAtStart(stored) == << >>

\* CFPreferencesCopyAppValue("BlockedApps", domain) (line 205): the value
\* stored at the time of the call
ReadBlockedApps(stored) == stored

\* ------------------------------------------------------------ appLaunched_
\* lines 202-227: read the policy, build the combined pattern, match, resolve
AppLaunched(event) ==
    LET value == ReadBlockedApps(policy)
    IN
    /\ pc = "idle"
    /\ notification' = <<event>>
    /\ console_user' = << >>
    /\ trace' = << >>
    /\ kills' = << >>
    /\ alerts' = << >>
    /\ deletes' = << >>
    /\ UNCHANGED <<policy, prev, lvars>>
    /\ IF value = << >>
       THEN \* list(None)
            /\ blocked_apps' = << >>
            /\ blocked_app' = << >>
            /\ Leave("TypeError")
       ELSE /\ blocked_apps' = <<value[1]>>
            /\ IF ~HasApplication(value[1])
               THEN blocked_app' = << >> /\ Leave("KeyError")
               ELSE IF ~ReCompiles(Combined(BlockedBundleIdentifiers(value[1])))
               THEN blocked_app' = << >> /\ Leave("re.error")
               ELSE IF ~ReMatch(Combined(BlockedBundleIdentifiers(value[1])),
                                event.NSApplicationBundleIdentifier)
               THEN blocked_app' = << >> /\ Leave("")
               ELSE /\ blocked_app' = ResolveBlockedApp(value[1],
                                          event.NSApplicationBundleIdentifier)
                    /\ pc' = "console"
                    /\ error' = ""

\* lines 229-234: execute_process(scutil ...) and the log record.
\* The command prints the user's name, or nothing (nobody logged in, or the
\* command failed); subprocess.Popen itself can raise OSError.
QueryConsoleUser(outcome) ==
    /\ pc = "console"
    /\ outcome \in {"alice", "", "OSError"}
    /\ trace' = Append(trace, "scutil")
    /\ IF outcome = "OSError"
       THEN UNCHANGED console_user /\ Leave("OSError")
       ELSE console_user' = <<outcome>> /\ Goto(AfterLogging)
    /\ UNCHANGED <<policy, notification, blocked_apps, blocked_app, kills, alerts, deletes, prev>>
    /\ UNCHANGED lvars

\* lines 236-246: os.kill(pid, SIGKILL), then the AlertUser test
KillProcess(outcome) ==
    /\ pc = "kill"
    /\ outcome \in {"ok", "ProcessLookupError"}
    /\ trace' = Append(trace, "kill")
    /\ kills' = Append(kills, [pid |-> notification[1].NSApplicationProcessIdentifier,
                               delivered |-> outcome = "ok"])
    /\ IF outcome = "ok"
       THEN Goto(AlertBranch(blocked_app))
       ELSE Leave("ProcessLookupError")
    /\ UNCHANGED <<policy, locals, alerts, deletes, prev, lvars>>

\* lines 248-265 and alert(), lines 308-323: icon lookup (failure caught),
\* title formatting, modal alert; then the DeleteApp test
AlertUser(icon, display) ==
    /\ pc = "alert"
    /\ icon \in {"resolved", "exception"}
    /\ display \in {"ok", "raise"}
    /\ IF FormatRaises(blocked_app[1].AlertTitle)
       THEN /\ UNCHANGED <<trace, alerts>>
            /\ Leave("KeyError")
       ELSE /\ trace' = Append(trace, "alert")
            /\ alerts' = Append(alerts,
                   [title |-> Format(blocked_app[1].AlertTitle,
                                     notification[1].NSApplicationName),
                    message |-> blocked_app[1].AlertMessage,
                    buttons |-> <<"OK">>,
                    icon |-> IF icon = "resolved"
                             THEN <<notification[1].NSApplicationPath>>
                             ELSE << >>,
                    shown |-> display = "ok"])
            /\ IF display = "ok"
               THEN Goto(DeleteBranch(blocked_app))
               ELSE Leave("AlertError")
    /\ UNCHANGED <<policy, locals, kills, deletes, prev, lvars>>

\* lines 268-272: shutil.rmtree(path), OSError caught and printed
DeleteApp(outcome) ==
    /\ pc = "delete"
    /\ outcome \in {"ok", "OSError"}
    /\ trace' = Append(trace, "rmtree")
    /\ deletes' = Append(deletes, [path |-> notification[1].NSApplicationPath,
                                   removed |-> outcome = "ok"])
    /\ Leave(AfterRmtree(outcome))
    /\ UNCHANGED <<policy, locals, kills, alerts, prev, lvars>>

\* the run loop takes control again; the handler's frame is gone.  An
\* exception that left the handler is reported by the bridge; if it ends the
\* process, launchd starts it again (KeepAlive, line 130).
RunLoop ==
    /\ pc \in {"returned", "raised"}
    /\ pc' = "idle"
    /\ notification' = << >>
    /\ blocked_apps' = << >>
    /\ blocked_app' = << >>
    /\ console_user' = << >>
    /\ trace' = << >>
    /\ kills' = << >>
    /\ alerts' = << >>
    /\ deletes' = << >>
    /\ error' = ""
    /\ prev' = << [bundle_identifier |-> notification[1].NSApplicationBundleIdentifier,
                   matched |-> trace # << >>] >>
    /\ UNCHANGED <<policy, lvars>>

Next ==
    \/ \E e \in Entries : AdminAddEntry(e)
    \/ \E i \in 1..MaxPolicyLen : AdminRemoveEntry(i)
    \/ AdminUnsetPolicy
    \/ \E event \in LaunchEvents : AppLaunched(event)
    \/ \E outcome \in {"alice", "", "OSError"} : QueryConsoleUser(outcome)
    \/ \E outcome \in {"ok", "ProcessLookupError"} : KillProcess(outcome)
    \/ \E icon \in {"resolved", "exception"}, display \in {"ok", "raise"} : AlertUser(icon, display)
    \/ \E outcome \in {"ok", "OSError"} : DeleteApp(outcome)
    \/ RunLoop

Spec == Init /\ [][Next]_allvars

\* ------------------------------------------------------------------ types
TypeOK ==
    /\ policy \in PolicyValues
    /\ pc \in {"idle", "console", "kill", "alert", "delete", "returned", "raised"}
    /\ Len(notification) <= 1
    /\ Len(blocked_app) <= 1
    /\ Len(blocked_apps) <= 1
    /\ Len(prev) <= 1
    /\ \A i \in 1..Len(kills) : kills[i].pid \in Pids

\* ------------------------------------------------- vocabulary of the claims
Handling == pc # "idle"
Finished == pc \in {"returned", "raised"}
\* the handler entered the body of `if re.match(...)`
Matched == pc \in {"console", "kill", "alert", "delete"} \/ (Finished /\ trace # << >>)

EventBundleId == notification[1].NSApplicationBundleIdentifier
EventPid == notification[1].NSApplicationProcessIdentifier
EventName == notification[1].NSApplicationName
EventPath == notification[1].NSApplicationPath

NoSideEffects == trace = << >> /\ kills = << >> /\ alerts = << >> /\ deletes = << >>

\* an entry's own pattern, compiled and tested alone, matches the identifier
EntryMatches(e, b) ==
    /\ "Application" \in DOMAIN e
    /\ ReCompiles(e.Application)
    /\ ReMatch(e.Application, b)

MatchingEntries(l, b) == { i \in 1..Len(l) : EntryMatches(l[i], b) }

\* every entry has a pattern and every pattern is a regular expression
Evaluable(l) ==
    \A i \in 1..Len(l) : "Application" \in DOMAIN l[i] /\ ReCompiles(l[i].Application)

EqualEntries(l, b) ==
    { i \in 1..Len(l) : "Application" \in DOMAIN l[i] /\ l[i].Application = b }

Max(S) == CHOOSE m \in S : \A n \in S : m >= n

\* a non-empty list of distinct literal identifiers
DistinctLiterals(l) ==
    /\ Len(l) >= 1
    /\ \A i \in 1..Len(l) : "Application" \in DOMAIN l[i] /\ l[i].Application \in LiteralPatterns
    /\ \A i, j \in 1..Len(l) : i # j => l[i].Application # l[j].Application

\* the alert and delete steps of this event are those of entry e
DrivenBy(e) ==
    /\ blocked_app = <<e>>
    /\ \A i \in 1..Len(alerts) :
          /\ e.AlertUser
          /\ alerts[i].title = Format(e.AlertTitle, EventName)
          /\ alerts[i].message = e.AlertMessage
    /\ \A i \in 1..Len(deletes) : e.DeleteApp /\ deletes[i].path = EventPath
    /\ pc = "returned" =>
          /\ Len(alerts) = (IF e.AlertUser THEN 1 ELSE 0)
          /\ Len(deletes) = (IF e.DeleteApp THEN 1 ELSE 0)

\* ------------------------------------------------------------------ claims

\* C1: for every event, an alert call or a delete call is preceded, in the
\* order of the calls, by the termination call on that event's process id.
C1_TerminationPrecedesAlertAndDelete ==
    /\ \A i \in 1..Len(trace) :
          trace[i] \in {"alert", "rmtree"} =>
             \E j \in 1..(i - 1) : trace[j] = "kill"
    /\ (alerts # << >> \/ deletes # << >> \/ pc \in {"alert", "delete"}) =>
          /\ kills # << >>
          /\ kills[1].pid = EventPid

C1_Witness ==
    /\ pc = "returned"
    /\ trace = <<"scutil", "kill", "alert", "rmtree">>
    /\ kills[1].pid = EventPid

\* C2: with BlockedApps read as an empty array, an event terminates nothing,
\* shows no alert, deletes nothing, and the handler returns without raising.
C2_EmptyDenyListMatchesNothing ==
    (Handling /\ policy = << << >> >>) => (NoSideEffects /\ pc = "returned")

\* C3: a finished event that some entry matches has had exactly one kill,
\* sent to its own pid; a finished event that no entry matches has had none.
C3_ExactlyOneKillPerMatchedEvent ==
    (Finished /\ policy # << >> /\ Evaluable(policy[1])) =>
        IF MatchingEntries(policy[1], EventBundleId) # {}
        THEN Len(kills) = 1 /\ kills[1].pid = EventPid
        ELSE kills = << >>

\* C4: with a non-empty list of distinct literal identifiers, an event whose
\* identifier equals a listed one is enforced with that identifier's entry,
\* and an event that no listed pattern matches causes no enforcement.
C4_LiteralIdentifierSelectsItsEntry ==
    (Handling /\ policy # << >> /\ DistinctLiterals(policy[1])) =>
        /\ \A k \in 1..Len(policy[1]) :
              policy[1][k].Application = EventBundleId =>
                 /\ Matched
                 /\ DrivenBy(policy[1][k])
        /\ MatchingEntries(policy[1], EventBundleId) = {} =>
              NoSideEffects /\ pc = "returned"

C4_Witness ==
    /\ pc = "returned"
    /\ policy # << >>
    /\ DistinctLiterals(policy[1])
    /\ Len(policy[1]) = 2
    /\ policy[1][2].Application = EventBundleId
    /\ ~policy[1][1].AlertUser /\ ~policy[1][1].DeleteApp
    /\ Len(alerts) = 1 /\ alerts[1].shown
    /\ Len(deletes) = 1

\* C5: an event that at least one entry matches always has an entry resolved:
\* the first entry, in list order, whose own pattern matches the identifier;
\* that entry's flags decide the alert and the deletion.
C5_FirstMatchingEntryResolved ==
    (Handling /\ policy # << >> /\ Evaluable(policy[1])
       /\ MatchingEntries(policy[1], EventBundleId) # {}) =>
        /\ Matched
        /\ DrivenBy(policy[1][Min(MatchingEntries(policy[1], EventBundleId))])

\* C6: when several entries have an Application equal to the identifier, the
\* last of them in list order drives the alert and delete steps.
C6_LastEqualEntryWins ==
    (Handling /\ policy # << >> /\ Evaluable(policy[1])
       /\ Cardinality(EqualEntries(policy[1], EventBundleId)) >= 2) =>
        /\ Matched
        /\ DrivenBy(policy[1][Max(EqualEntries(policy[1], EventBundleId))])

C6_Witness ==
    /\ pc = "returned"
    /\ policy # << >>
    /\ EqualEntries(policy[1], EventBundleId) = {1, 2}
    /\ ~policy[1][1].AlertUser /\ ~policy[1][1].DeleteApp
    /\ policy[1][2].AlertUser /\ policy[1][2].DeleteApp
    /\ Len(alerts) = 1 /\ Len(deletes) = 1

\* C7: when the removal of the bundle fails with an OS error, the event's
\* process has been killed exactly once and the handler returns normally.
C7_DeleteFailureKeepsKillAndReturns ==
    \A i \in 1..Len(deletes) :
        ~deletes[i].removed =>
            /\ Len(kills) = 1
            /\ kills[1].pid = EventPid
            /\ kills[1].delivered
            /\ blocked_app[1].DeleteApp
            /\ pc = "returned"
            /\ error = ""

C7_Witness ==
    /\ pc = "returned"
    /\ Len(deletes) = 1
    /\ ~deletes[1].removed
    /\ Len(kills) = 1

\* the alert step of this event failed: icon lookup, title formatting or display
AlertStepFailed ==
    \/ alerts # << >> /\ (alerts[1].icon = << >> \/ ~alerts[1].shown)
    \/ error = "KeyError" /\ blocked_app # << >>

\* C8: for an entry with AlertUser and DeleteApp both true, a failure of the
\* alert step neither leaves the handler nor prevents the deletion attempt.
C8_AlertFailureDoesNotPreventDelete ==
    (Finished /\ blocked_app # << >> /\ AlertStepFailed
       /\ blocked_app[1].AlertUser /\ blocked_app[1].DeleteApp) =>
        (pc = "returned" /\ Len(deletes) = 1)

\* C9: when the kill reports an error (the process has already exited), the
\* handler still returns normally and the alert and delete steps run
\* according to the entry's flags.
C9_KillErrorSwallowed ==
    (Finished /\ kills # << >> /\ ~kills[1].delivered) =>
        /\ pc = "returned"
        /\ blocked_app # << >> =>
              /\ blocked_app[1].AlertUser => alerts # << >>
              /\ blocked_app[1].DeleteApp => deletes # << >>

\* C10: when the policy cannot be evaluated (a pattern that is not a regular
\* expression, an entry without a pattern), the event is dropped without
\* termination, alert or deletion, and the handler returns without raising.
C10_UnevaluablePolicyDropsEventQuietly ==
    (Finished /\ policy # << >> /\ ~Evaluable(policy[1])) =>
        (NoSideEffects /\ pc = "returned")

\* C11: the console-user query never aborts enforcement: once it has been
\* made, the event's process is terminated, and a user (a name, nobody, or
\* "unknown" after a failure) has been logged.
C11_ConsoleUserFailureDoesNotAbort ==
    (Finished /\ trace # << >> /\ trace[1] = "scutil") =>
        /\ kills # << >>
        /\ kills[1].pid = EventPid
        /\ console_user \in {<<"alice">>, <<"">>, <<"unknown">>}

\* C12: the outcome of every event is that of the policy stored when the
\* event is handled: the array the handler works on is the stored one, the
\* event is matched exactly when the stored patterns match its identifier,
\* and the entry resolved is the one the stored array gives.
C12_OutcomeFollowsStoredPolicy ==
    Handling =>
        IF policy = << >>
        THEN blocked_apps = << >> /\ error = "TypeError" /\ NoSideEffects
        ELSE /\ blocked_apps = policy
             /\ Evaluable(policy[1]) =>
                   /\ Matched <=> ReMatch(Combined(BlockedBundleIdentifiers(policy[1])),
                                           EventBundleId)
                   /\ Matched => blocked_app = ResolveBlockedApp(policy[1], EventBundleId)
                   /\ ~Matched => pc = "returned" /\ NoSideEffects

\* an identifier that the previous event did not match is matched now: an
\* entry added between the two events is in force
C12_Witness ==
    /\ pc = "returned"
    /\ Matched
    /\ policy # << >> /\ Len(policy[1]) >= 1
    /\ blocked_app # << >>
    /\ prev = << [bundle_identifier |-> EventBundleId, matched |-> FALSE] >>

\* ================================================= install / uninstall
\* Versions an installed copy can report (system_version, line 373)
Versions == {CurrentVersion, OlderVersion}

OsMinorVersions == MinOsMinor..MaxOsMinor

\* variant: the threshold is exclusive
DialectAbove11(minor) ==
    IF minor > 11 THEN "modern"
    ELSE IF minor <= 10 THEN "legacy"
    ELSE "none"

\* the launchctl syntax chosen by start_daemon and stop_daemon
\* (lines 148/159 and 177/186)
Dialect(minor) ==
    IF minor >= 11 THEN "modern"
    ELSE IF minor <= 10 THEN "legacy"
    ELSE "none"

ModernVerbs == {"print", "bootstrap", "enable", "bootout"}
LegacyVerbs == {"list", "load", "unload"}

\* the second argument of plistlib.dump at line 135 is launch_daemon_location,
\* a str; plistlib.dump writes to a binary file object and raises
\* AttributeError on anything without a write method
DumpTarget == "str"
PlistDumpAccepts(fp) == fp = "file"

\* the one-shot process ends: normally (exception = "") or by an exception
Exit(exception) ==
    /\ step' = "exited"
    /\ failure' = exception

\* main, lines 364-375 and 392, 410-413: the branch taken on the action
Main(a) ==
    /\ step = "none"
    /\ a \in {"install", "uninstall"}
    /\ action' = a
    /\ ops' = << >>
    /\ failure' = ""
    /\ before' = << [binary |-> binary, descriptor |-> descriptor,
                     loaded |-> loaded, enabled |-> enabled] >>
    /\ faulted' = FALSE
    /\ step' = IF a = "install"
               THEN IF binary # << >> /\ binary[1] = CurrentVersion
                    THEN "start"
                    ELSE "copy"
               ELSE IF binary # << >> THEN "remove_binary" ELSE "stop"
    /\ UNCHANGED <<host, last_run, vars>>

\* shutil.copy(__file__, script_location), lines 381 and 394
CopyBinary(outcome) ==
    /\ step = "copy"
    /\ outcome \in {"ok", "OSError"}
    /\ ops' = Append(ops, "copy")
    /\ IF outcome = "ok"
       THEN binary' = <<CurrentVersion>> /\ step' = "create" /\ failure' = ""
       ELSE UNCHANGED binary /\ Exit("OSError")
    /\ faulted' = (faulted \/ outcome = "OSError")
    /\ UNCHANGED <<descriptor, loaded, enabled, os_minor_version, action, before, last_run, vars>>

\* create_daemon, lines 110-135
CreateDaemon ==
    /\ step = "create"
    /\ ops' = Append(ops, "dump")
    /\ IF PlistDumpAccepts(DumpTarget)
       THEN descriptor' = <<LaunchDaemonPlist>> /\ step' = "stop" /\ failure' = ""
       ELSE UNCHANGED descriptor /\ Exit("AttributeError")
    /\ UNCHANGED <<binary, loaded, enabled, os_minor_version, action, before, faulted,
                   last_run, vars>>

\* variant: the descriptor is removed without the os.path.exists test
AfterStopNoExistsTest(a, plist) ==
    IF a = "install" THEN "start" ELSE "remove_descriptor"

\* what follows stop_daemon: start_daemon in install (line 404), the removal
\* of the descriptor in uninstall (lines 422-423)
AfterStop(a, plist) ==
    IF a = "install" THEN "start"
    ELSE IF plist # << >> THEN "remove_descriptor"
    ELSE "return"

\* stop_daemon, lines 168-192.  The probe exits with 0 when the unit is
\* loaded.  bootout takes the service target; unload is given the label
\* (line 192) where launchctl unload takes the path of a plist, so it
\* unloads nothing.  A verb that fails (exit code not 0) changes nothing.
StopDaemon(outcome) ==
    /\ step = "stop"
    /\ outcome \in {"ok", "failed"}
    /\ IF Dialect(os_minor_version) = "modern"
       THEN /\ ops' = ops \o <<"print">> \o (IF loaded THEN <<"bootout">> ELSE << >>)
            /\ loaded' = IF loaded /\ outcome = "ok" THEN FALSE ELSE loaded
       ELSE IF Dialect(os_minor_version) = "legacy"
       THEN /\ ops' = ops \o <<"list">> \o (IF loaded THEN <<"unload">> ELSE << >>)
            /\ UNCHANGED loaded
       ELSE UNCHANGED <<ops, loaded>>
    /\ IF AfterStop(action, descriptor) = "return"
       THEN Exit("")
       ELSE step' = AfterStop(action, descriptor) /\ failure' = ""
    /\ faulted' = (faulted \/ (loaded /\ outcome = "failed"
                                 /\ Dialect(os_minor_version) # "none"))
    /\ UNCHANGED <<binary, descriptor, enabled, os_minor_version, action, before, last_run, vars>>

\* start_daemon, lines 138-165.  bootstrap and load need the plist file.
StartDaemon(loading, enabling) ==
    /\ step = "start"
    /\ loading \in {"ok", "failed"}
    /\ enabling \in {"ok", "failed"}
    /\ IF Dialect(os_minor_version) = "modern"
       THEN /\ ops' = ops \o <<"print">>
                         \o (IF loaded THEN << >> ELSE <<"bootstrap">>)
                         \o <<"enable">>
            /\ loaded' = (loaded \/ (descriptor # << >> /\ loading = "ok"))
            /\ enabled' = (enabled \/ enabling = "ok")
       ELSE IF Dialect(os_minor_version) = "legacy"
       THEN /\ ops' = ops \o <<"list">> \o (IF loaded THEN << >> ELSE <<"load">>)
            /\ loaded' = (loaded \/ (descriptor # << >> /\ loading = "ok"))
            /\ UNCHANGED enabled
       ELSE UNCHANGED <<ops, loaded, enabled>>
    /\ Exit("")
    /\ faulted' = \/ faulted
                  \/ ~loaded /\ loading = "failed" /\ Dialect(os_minor_version) # "none"
                  \/ enabling = "failed" /\ Dialect(os_minor_version) = "modern"
    /\ UNCHANGED <<binary, descriptor, os_minor_version, action, before, last_run, vars>>

\* lines 413-417: os.remove(script_location), OSError caught and logged
RemoveBinary(outcome) ==
    /\ step = "remove_binary"
    /\ outcome \in {"ok", "OSError"}
    /\ IF outcome = "ok"
       THEN binary' = << >> /\ ops' = Append(ops, "remove_binary")
       ELSE UNCHANGED binary /\ ops' = ops \o <<"remove_binary", "logger.error">>
    /\ step' = "stop"
    /\ failure' = ""
    /\ faulted' = (faulted \/ outcome = "OSError")
    /\ UNCHANGED <<descriptor, loaded, enabled, os_minor_version, action, before, last_run, vars>>

\* lines 422-423: os.remove(launch_daemon_location), outside any try
RemoveDescriptor(outcome) ==
    /\ step = "remove_descriptor"
    /\ outcome \in {"ok", "OSError"}
    /\ ops' = Append(ops, "remove_descriptor")
    /\ IF outcome = "ok"
       THEN descriptor' = << >> /\ Exit("")
       ELSE UNCHANGED descriptor /\ Exit("OSError")
    /\ faulted' = (faulted \/ outcome = "OSError")
    /\ UNCHANGED <<binary, loaded, enabled, os_minor_version, action, before, last_run, vars>>

\* the one-shot process is gone; the next one can be started
ProcessExit ==
    /\ step = "exited"
    /\ last_run' = << [action |-> action, ops |-> ops, failure |-> failure] >>
    /\ action' = ""
    /\ step' = "none"
    /\ ops' = << >>
    /\ failure' = ""
    /\ before' = << >>
    /\ faulted' = FALSE
    /\ UNCHANGED <<host, vars>>

\* any host: nothing installed, the current or an earlier release installed,
\* with or without the descriptor, the unit loaded or not, enabled or not
LifecycleInit ==
    /\ DaemonInit
    /\ binary \in {<< >>} \cup { <<v>> : v \in Versions }
    /\ descriptor \in {<< >>, <<LaunchDaemonPlist>>}
    /\ loaded \in BOOLEAN
    /\ enabled \in BOOLEAN
    /\ os_minor_version \in OsMinorVersions
    /\ NoRun

LifecycleNext ==
    \/ \E a \in {"install", "uninstall"} : Main(a)
    \/ \E outcome \in {"ok", "OSError"} : CopyBinary(outcome)
    \/ CreateDaemon
    \/ \E outcome \in {"ok", "failed"} : StopDaemon(outcome)
    \/ \E loading \in {"ok", "failed"}, enabling \in {"ok", "failed"} : StartDaemon(loading, enabling)
    \/ \E outcome \in {"ok", "OSError"} : RemoveBinary(outcome)
    \/ \E outcome \in {"ok", "OSError"} : RemoveDescriptor(outcome)
    \/ ProcessExit

LifecycleSpec == LifecycleInit /\ [][LifecycleNext]_allvars

LifecycleTypeOK ==
    /\ Len(binary) <= 1
    /\ Len(descriptor) <= 1
    /\ loaded \in BOOLEAN
    /\ enabled \in BOOLEAN
    /\ os_minor_version \in OsMinorVersions
    /\ action \in {"", "install", "uninstall"}
    /\ step \in {"none", "copy", "create", "stop", "start", "remove_binary",
                 "remove_descriptor", "exited"}
    /\ Len(last_run) <= 1
    /\ Len(before) <= 1
    /\ faulted \in BOOLEAN

\* -------------------------------------- vocabulary of the lifecycle claims
Exited == step = "exited"

Has(seq, op) == \E i \in 1..Len(seq) : seq[i] = op
Count(seq, op) == Cardinality({ i \in 1..Len(seq) : seq[i] = op })
First(seq, op) == Min({ i \in 1..Len(seq) : seq[i] = op })
Last(seq, op) == Max({ i \in 1..Len(seq) : seq[i] = op })

Probes == {"print", "list"}
StopVerbs == {"bootout", "unload"}
LoadVerbs == {"bootstrap", "load"}
VerbsOf(seq) == { seq[i] : i \in 1..Len(seq) } \cap (ModernVerbs \cup LegacyVerbs)

\* the run found nothing installed
FoundAbsent ==
    /\ before # << >>
    /\ before[1].binary = << >>
    /\ before[1].descriptor = << >>
    /\ ~before[1].loaded

\* copy, descriptor write, stop_daemon, start_daemon, in this order
FullInstallOrder ==
    /\ Len(ops) >= 4
    /\ ops[1] = "copy"
    /\ ops[2] = "dump"
    /\ ops[3] \in Probes
    /\ Count(ops, "copy") = 1
    /\ Count(ops, "dump") = 1
    /\ \A i, j \in 1..Len(ops) :
          (ops[i] \in StopVerbs /\ ops[j] \in LoadVerbs \cup {"enable"}) => i < j

\* C13: install on a host without an installed copy ends with the program
\* copied, a fresh descriptor written, a loaded unit stopped first, and the
\* unit loaded.
C13_InstallFromAbsent ==
    (Exited /\ action = "install" /\ before[1].binary = << >> /\ binary # << >>) =>
        /\ failure = ""
        /\ binary = <<CurrentVersion>>
        /\ descriptor = <<LaunchDaemonPlist>>
        /\ FullInstallOrder
        /\ before[1].loaded => Has(ops, "bootout") \/ Has(ops, "unload")
        /\ ~faulted => loaded

\* C14: two installs in a row of the same version: one descriptor write in
\* all, made by the first; the second neither copies nor stops the unit, it
\* only makes sure the unit is loaded and enabled; both complete.
C14_SecondInstallIsIdempotent ==
    (Exited /\ action = "install" /\ last_run # << >>
       /\ last_run[1].action = "install" /\ Has(last_run[1].ops, "dump")
       /\ before[1].binary = <<CurrentVersion>>) =>
        /\ last_run[1].failure = ""
        /\ failure = ""
        /\ Count(last_run[1].ops, "dump") + Count(ops, "dump") = 1
        /\ descriptor # << >>
        /\ ~Has(ops, "copy") /\ ~Has(ops, "dump")
        /\ \A i \in 1..Len(ops) : ops[i] \notin StopVerbs
        /\ ~faulted => loaded

\* C15: install over a copy that reports another version: recopy, rewrite
\* of the descriptor, stop of the running unit, then one activation, in this
\* order, ending with the current version installed and the unit loaded.
C15_InstallOverStale ==
    (Exited /\ action = "install" /\ before[1].binary = <<OlderVersion>>
       /\ binary = <<CurrentVersion>>) =>
        /\ failure = ""
        /\ descriptor = <<LaunchDaemonPlist>>
        /\ FullInstallOrder
        /\ before[1].loaded => Count(ops, "bootout") + Count(ops, "unload") = 1
        /\ ~faulted => loaded

\* C16: uninstall on a host where nothing is installed removes nothing, stops
\* nothing, does not raise and leaves the host as it was.
C16_UninstallOnAbsentIsNoOp ==
    (action = "uninstall" /\ FoundAbsent) =>
        /\ \A i \in 1..Len(ops) : ops[i] \in Probes
        /\ binary = << >> /\ descriptor = << >> /\ ~loaded
        /\ enabled = before[1].enabled
        /\ failure = ""
        /\ step \in {"stop", "exited"}

\* a second uninstall in a row has ended and has done nothing
C16_Witness ==
    /\ Exited
    /\ action = "uninstall"
    /\ FoundAbsent
    /\ Len(ops) = 1
    /\ last_run # << >>
    /\ last_run[1].action = "uninstall"
    /\ Has(last_run[1].ops, "remove_descriptor")
    /\ last_run[1].failure = ""

\* C17: an uninstall in which one removal fails logs the failure, still
\* attempts every other step, and does not raise.
C17_UninstallIsBestEffort ==
    (Exited /\ action = "uninstall") =>
        /\ failure = ""
        /\ before[1].binary # << >> => Has(ops, "remove_binary")
        /\ \E i \in 1..Len(ops) : ops[i] \in Probes
        /\ before[1].descriptor # << >> => Has(ops, "remove_descriptor")
        /\ (Has(ops, "remove_binary") /\ binary # << >>) => Has(ops, "logger.error")
        /\ (Has(ops, "remove_descriptor") /\ descriptor # << >>) => Has(ops, "logger.error")

\* C18: every minor version selects one dialect: 11 and above only the
\* modern verbs, 10 and below only the legacy verbs; a run that called
\* start_daemon or stop_daemon has used a verb.
C18_DialectIsTotal ==
    /\ os_minor_version >= 11 => VerbsOf(ops) \subseteq ModernVerbs
    /\ os_minor_version <= 10 => VerbsOf(ops) \subseteq LegacyVerbs
    /\ (Exited /\ (failure = "" \/ action = "uninstall")) =>
          \E i \in 1..Len(ops) : ops[i] \in Probes
    /\ (Exited /\ failure = "" /\ action = "install") =>
          /\ os_minor_version >= 11 => ops[Len(ops)] = "enable"
          /\ os_minor_version <= 10 => ops[Len(ops)] \in {"list", "load"}

C18_Witness ==
    /\ Exited
    /\ os_minor_version = 11
    /\ action = "install"
    /\ ops = <<"print", "bootstrap", "enable">>

\* C19: a failing install step does not abort the install: after a copy has
\* been attempted, the descriptor write, the stop and the start are attempted
\* too and the install does not raise.
C19_InstallIsBestEffort ==
    (Exited /\ action = "install" /\ Has(ops, "copy")) =>
        /\ failure = ""
        /\ Has(ops, "dump")
        /\ Count(ops, "print") + Count(ops, "list") = 2

\* C20: an install that ends without a collaborator failure leaves the
\* current version installed, the descriptor present and the unit loaded;
\* no install or uninstall leaves the installed copy without its descriptor.
C20_InstallConverges ==
    (Exited /\ ~faulted) =>
        /\ (action = "install" /\ failure = "") =>
              /\ binary = <<CurrentVersion>>
              /\ descriptor # << >>
              /\ loaded
        /\ binary # << >> => descriptor # << >>

====
